---- MODULE Spec2Model ----
(***************************************************************************)
(* The click-track sampler of cory: the shared SamplerParam, the Sampler   *)
(* and its per-frame write loop, and the tick channel to the consumer.     *)
(*                                                                         *)
(* Numbers.  The code computes playhead, increment and cycle length in     *)
(* f64.  Here they are exact fractions over the common denominator Den,    *)
(* held as integer numerators: a playhead field of 3 * Den is 3.0.         *)
(* Sample values (in halves) and the volume (in tenths) are numerators     *)
(* too, and an output slot holds the numerator of their product (in        *)
(* twentieths).                                                            *)
(***************************************************************************)
EXTENDS Integers, Sequences, FiniteSets, TLC

\* Frames the audio callback processes in one behaviour.
MaxFrames == 7

\* Tempo values (BPM) the consumer threads store.
Tempos == {60, 120, 200}
\* Volume values the consumer threads store, in tenths: 0.5, 1.0.
Volumes == {5, 10}
\* spec.sample_rate of the decoded waveform.
SourceRates == {4}
\* config.sample_rate of the output stream.
OutputRates == {4, 8}
\* config.channels of the output stream.
ChannelCounts == {2}
\* Decoded sample buffers, in halves: 1.0, -0.5, 0.5.
SampleBuffers == {<<2, -1, 1>>}
\* An output slot holds << >> as the host hands it over, <<v>> once v is written.
Stale == << >>

RECURSIVE GCD(_, _)
GCD(a, b) == IF b = 0 THEN a ELSE GCD(b, a % b)

LCM(a, b) == (a * b) \div GCD(a, b)

RECURSIVE SetLCM(_)
SetLCM(S) == IF S = {} THEN 1
             ELSE LET x == CHOOSE y \in S : TRUE IN LCM(x, SetLCM(S \ {x}))

\* Common denominator of every f64 quantity of the playhead arithmetic.
Den == SetLCM(Tempos \cup OutputRates)

VARIABLES
    param,      \* SamplerParam: [bpm, playing, volume]
    sampler,    \* the Sampler handed to the output stream, with the locals of write
    twin,       \* a second Sampler fed the same loads (SpecPair only)
    out_rate,   \* write's sample_rate argument
    n_channels, \* write's n_channels argument
    chan,       \* SamplerEvents sent and not yet received
    rx,         \* the Receiver: "alive" or "dropped"
    nframes,    \* history: frames started
    wraps,      \* history: wrap branches taken
    ticks,      \* history: send_tick calls made
    sent,       \* history: events accepted by the channel
    hist,       \* history: what the last frame did
    run,        \* history: frames since playhead 0 under one tempo
    toggle,     \* history: a consumer's stop-then-play sequence
    trail,      \* history: the last consecutive playing frames (SpecTrail only)
    dec,        \* a Sampler construction from a waveform source (SpecDecode only)
    cells,      \* the atomic storage cells of a SamplerParam (SpecAtomic only)
    app,        \* the App of the terminal interface (SpecApp only)
    resume      \* history: the playhead at the last stop a frame saw (SpecResume only)

vars == <<param, sampler, twin, out_rate, n_channels, chan, rx,
          nframes, wraps, ticks, sent, hist, run, toggle, trail, dec, cells, app,
          resume>>

----------------------------------------------------------------------------
\* Sampler::from_reader: the state after construction.
NewSampler(samples, sample_rate, sender) ==
    [ samples     |-> samples,
      sample_rate |-> sample_rate,
      sender      |-> sender,
      playhead    |-> 0,
      was_playing |-> FALSE,
      \* locals of write, and where the callback is
      pc          |-> "load_playing",
      playing     |-> FALSE,
      volume      |-> 0,
      idx         |-> 0,
      length      |-> 0,
      frame       |-> << >> ]

\* f64::round followed by `as usize`, of a non-negative playhead.
Round(p) == (2 * p + Den) \div (2 * Den)

\* T::from_sample for T = f64.
from_sample(v) == v

\* Mutant of cycle_length: the tempo is not read again, the default is used.
cycle_length_default_tempo(e, bpm) == (e.sample_rate * 60 * Den) \div 120

\* Sampler::cycle_length, from the tempo it loads.
cycle_length(e, bpm) == (e.sample_rate * 60 * Den) \div bpm

\* Mutant of send_tick: a missing sender is an error.
send_tick_requires_sender(e, receiver) ==
    IF e.sender = "Some" /\ receiver = "alive"
    THEN [ok |-> TRUE, msgs |-> <<"Tick">>]
    ELSE [ok |-> FALSE, msgs |-> << >>]

\* Sampler::send_tick: whether it returns Ok, and what the channel receives.
send_tick(e, receiver) ==
    IF e.sender = "Some"
    THEN IF receiver = "alive"
         THEN [ok |-> TRUE, msgs |-> <<"Tick">>]
         ELSE [ok |-> FALSE, msgs |-> << >>]
    ELSE [ok |-> TRUE, msgs |-> << >>]

\* Mutant of UpdatePlaying: the stop edge does not reset the playhead.
UpdatePlayingNoReset(e, playing, channels) ==
    [e EXCEPT
        !.was_playing = playing,
        !.playing = playing,
        !.volume = 0, !.idx = 0, !.length = 0,
        !.frame = [c \in 1..channels |-> Stale],
        !.pc = IF playing THEN "load_volume" ELSE "load_playing"]

\* Mutant of UpdatePlaying: the playhead is reset on the start edge instead.
UpdatePlayingResetOnStart(e, playing, channels) ==
    [e EXCEPT
        !.was_playing = playing,
        !.playhead = IF ~e.was_playing /\ playing THEN 0 ELSE e.playhead,
        !.playing = playing,
        !.volume = 0, !.idx = 0, !.length = 0,
        !.frame = [c \in 1..channels |-> Stale],
        !.pc = IF playing THEN "load_volume" ELSE "load_playing"]

\* Mutant of UpdatePlaying: a stopped frame is not skipped.
UpdatePlayingNoSkip(e, playing, channels) ==
    [e EXCEPT
        !.was_playing = playing,
        !.playhead = IF e.was_playing /\ ~playing THEN 0 ELSE e.playhead,
        !.playing = playing,
        !.volume = 0, !.idx = 0, !.length = 0,
        !.frame = [c \in 1..channels |-> Stale],
        !.pc = "load_volume"]

\* Mutant of UpdatePlaying: the start edge is not latched.
UpdatePlayingNoLatch(e, playing, channels) ==
    LET latched ==
            IF e.was_playing /\ ~playing
            THEN [e EXCEPT !.was_playing = FALSE, !.playhead = 0]
            ELSE e
    IN  [latched EXCEPT
            !.playing = playing,
            !.volume = 0, !.idx = 0, !.length = 0,
            !.frame = [c \in 1..channels |-> Stale],
            !.pc = IF playing THEN "load_volume" ELSE "load_playing"]

\* write, lines 128-140: take the next frame, load playing, detect the edge.
UpdatePlaying(e, playing, channels) ==
    LET latched ==
            IF ~e.was_playing /\ playing
            THEN [e EXCEPT !.was_playing = TRUE]
            ELSE IF e.was_playing /\ ~playing
                 THEN [e EXCEPT !.was_playing = FALSE, !.playhead = 0]
                 ELSE e
    IN  [latched EXCEPT
            !.playing = playing,
            !.volume = 0, !.idx = 0, !.length = 0,
            !.frame = [c \in 1..channels |-> Stale],
            !.pc = IF playing THEN "load_volume" ELSE "load_playing"]

\* Mutant of WriteFrame: only the first channel slot is written.
WriteFrameFirstSlot(e, volume) ==
    LET idx == Round(e.playhead)
    IN  [e EXCEPT
            !.volume = volume,
            !.idx = idx,
            !.frame = IF idx < Len(e.samples)
                      THEN [e.frame EXCEPT
                                ![1] = <<from_sample(e.samples[idx + 1] * volume)>>]
                      ELSE e.frame,
            !.pc = "advance"]

\* Mutant of WriteFrame: an index beyond the buffer writes silence.
WriteFrameSilenceBeyondBuffer(e, volume) ==
    LET idx == Round(e.playhead)
    IN  [e EXCEPT
            !.volume = volume,
            !.idx = idx,
            !.frame = IF idx < Len(e.samples)
                      THEN [c \in DOMAIN e.frame |->
                                <<from_sample(e.samples[idx + 1] * volume)>>]
                      ELSE [c \in DOMAIN e.frame |-> <<0>>],
            !.pc = "advance"]

\* Mutant of WriteFrame: the index is the playhead truncated.
WriteFrameTruncatedIndex(e, volume) ==
    LET idx == e.playhead \div Den
    IN  [e EXCEPT
            !.volume = volume,
            !.idx = idx,
            !.frame = IF idx < Len(e.samples)
                      THEN [c \in DOMAIN e.frame |->
                                <<from_sample(e.samples[idx + 1] * volume)>>]
                      ELSE e.frame,
            !.pc = "advance"]

\* Mutant of WriteFrame: the volume is brought into [0, 1] before use.
WriteFrameClampedVolume(e, volume) ==
    LET idx == Round(e.playhead)
        clamped == IF volume < 0 THEN 0 ELSE IF volume > 10 THEN 10 ELSE volume
    IN  [e EXCEPT
            !.volume = clamped,
            !.idx = idx,
            !.frame = IF idx < Len(e.samples)
                      THEN [c \in DOMAIN e.frame |->
                                <<from_sample(e.samples[idx + 1] * clamped)>>]
                      ELSE e.frame,
            !.pc = "advance"]

\* write, lines 143-150: load volume, write the frame's slots.
WriteFrame(e, volume) ==
    LET idx == Round(e.playhead)
    IN  [e EXCEPT
            !.volume = volume,
            !.idx = idx,
            !.frame = IF idx < Len(e.samples)
                      THEN [c \in DOMAIN e.frame |->
                                <<from_sample(e.samples[idx + 1] * volume)>>]
                      ELSE e.frame,
            !.pc = "advance"]

\* Mutant of MoveClock: the rewind happens only beyond the cycle length.
MoveClockLateWrap(e, bpm, output_rate, receiver) ==
    LET inc == (e.sample_rate * Den) \div output_rate
        playhead_inc == e.playhead + inc
        length == cycle_length(e, bpm)
    IN  IF playhead_inc <= length
        THEN [e |-> [e EXCEPT !.playhead = playhead_inc, !.length = length,
                               !.pc = "load_playing"],
              wrapped |-> FALSE, calls |-> 0, msgs |-> << >>]
        ELSE LET res == send_tick(e, receiver)
             IN  [e |-> [e EXCEPT !.playhead = playhead_inc - length,
                                  !.length = length,
                                  !.pc = IF res.ok THEN "load_playing"
                                         ELSE "panicked"],
                  wrapped |-> TRUE, calls |-> 1, msgs |-> res.msgs]

\* Mutant of MoveClock: the rewind sends no tick.
MoveClockSilentWrap(e, bpm, output_rate, receiver) ==
    LET inc == (e.sample_rate * Den) \div output_rate
        playhead_inc == e.playhead + inc
        length == cycle_length(e, bpm)
    IN  IF playhead_inc < length
        THEN [e |-> [e EXCEPT !.playhead = playhead_inc, !.length = length,
                               !.pc = "load_playing"],
              wrapped |-> FALSE, calls |-> 0, msgs |-> << >>]
        ELSE [e |-> [e EXCEPT !.playhead = playhead_inc - length,
                               !.length = length, !.pc = "load_playing"],
              wrapped |-> TRUE, calls |-> 0, msgs |-> << >>]

\* write, lines 152-163: move the clock; on a rewind send a tick and unwrap.
MoveClock(e, bpm, output_rate, receiver) ==
    LET inc == (e.sample_rate * Den) \div output_rate
        playhead_inc == e.playhead + inc
        length == cycle_length(e, bpm)
    IN  IF playhead_inc < length
        THEN [e |-> [e EXCEPT !.playhead = playhead_inc, !.length = length,
                               !.pc = "load_playing"],
              wrapped |-> FALSE, calls |-> 0, msgs |-> << >>]
        ELSE LET res == send_tick(e, receiver)
             IN  [e |-> [e EXCEPT !.playhead = playhead_inc - length,
                                  !.length = length,
                                  !.pc = IF res.ok THEN "load_playing"
                                         ELSE "panicked"],
                  wrapped |-> TRUE, calls |-> 1, msgs |-> res.msgs]

----------------------------------------------------------------------------
NoHist == [pre |-> 0, prev_length |-> 0, edge |-> "none", adv |-> "none"]
NoRun == [ok |-> TRUE, n |-> 0, ticks |-> 0, bpm |-> 0]
NoToggle == [phase |-> "idle", from |-> 0]
\* The parts of the state a specification does not exercise.
NoDec == [stage |-> "none"]
NoCells == [stage |-> "none"]
NoApp == [stage |-> "none"]
\* No frame has seen a stop yet.
NoResume == [stopped_at |-> -1, n |-> 0, ticks |-> 0, bpm |-> 0, steady |-> TRUE]

InitCommon ==
    /\ param \in [bpm : Tempos, playing : BOOLEAN, volume : Volumes]
    /\ out_rate \in OutputRates
    /\ n_channels \in ChannelCounts
    /\ chan = << >>
    /\ rx = "alive"
    /\ nframes = 0 /\ wraps = 0 /\ ticks = 0 /\ sent = 0
    /\ hist = NoHist /\ run = NoRun /\ toggle = NoToggle
    /\ trail = << >>
    /\ resume = NoResume
    /\ dec = NoDec /\ cells = NoCells /\ app = NoApp

\* main: channel(), SamplerParam, Sampler::new(param, sender).
Init ==
    /\ InitCommon
    /\ \E b \in SampleBuffers, r \in SourceRates, s \in {"None", "Some"} :
          sampler = NewSampler(b, r, s)
    /\ twin = sampler

\* The engine constructed and not yet driven: what the specifications of the
\* constructor, the atomics and the interface hold constant.
EngineAtRest ==
    /\ out_rate = CHOOSE r \in OutputRates : TRUE
    /\ n_channels = CHOOSE c \in ChannelCounts : TRUE
    /\ sampler = NewSampler(CHOOSE b \in SampleBuffers : TRUE,
                            CHOOSE r \in SourceRates : TRUE, "Some")
    /\ twin = sampler
    /\ chan = << >>
    /\ rx = "alive"
    /\ nframes = 0 /\ wraps = 0 /\ ticks = 0 /\ sent = 0
    /\ hist = NoHist /\ run = NoRun /\ toggle = NoToggle
    /\ trail = << >>
    /\ resume = NoResume

\* SamplerParam as main builds it from the default Config.
DefaultParam == [bpm |-> 120, playing |-> FALSE, volume |-> 10]

----------------------------------------------------------------------------
\* Consumer threads: AtomicF64::store on bpm.
StoreBpm(v) ==
    /\ param' = [param EXCEPT !.bpm = v]
    /\ UNCHANGED <<resume, trail, dec, cells, app, sampler, twin, out_rate, n_channels, chan, rx,
                   nframes, wraps, ticks, sent, hist, run, toggle>>

\* Consumer threads: AtomicF64::store on volume.
StoreVolume(v) ==
    /\ param' = [param EXCEPT !.volume = v]
    /\ UNCHANGED <<resume, trail, dec, cells, app, sampler, twin, out_rate, n_channels, chan, rx,
                   nframes, wraps, ticks, sent, hist, run, toggle>>

\* History of a stop-then-play sequence, at a store to playing.
ToggleAtStore(b) ==
    IF b
    THEN CASE toggle.phase = "off"      -> [toggle EXCEPT !.phase = "on"]
           [] toggle.phase = "off_seen" -> [toggle EXCEPT !.phase = "on_seen"]
           [] OTHER                     -> toggle
    ELSE CASE toggle.phase = "on"       -> [toggle EXCEPT !.phase = "off"]
           [] toggle.phase = "on_seen"  -> [toggle EXCEPT !.phase = "off_seen"]
           [] toggle.phase \in {"off", "off_seen"} -> toggle
           [] OTHER ->
                IF param.playing /\ sampler.was_playing
                THEN [phase |-> "off", from |-> sampler.playhead]
                ELSE NoToggle

\* History of a stop-then-play sequence, at the load of playing of a frame.
ToggleAtLoad ==
    CASE toggle.phase = "off"     -> [toggle EXCEPT !.phase = "off_seen"]
      [] toggle.phase = "on"      -> [toggle EXCEPT !.phase = "resumed"]
      [] toggle.phase = "on_seen" -> [toggle EXCEPT !.phase = "resumed_seen"]
      [] toggle.phase \in {"resumed", "resumed_seen"} -> NoToggle
      [] OTHER                    -> toggle

\* Consumer threads: AtomicBool::store on playing.
StorePlaying(b) ==
    /\ param' = [param EXCEPT !.playing = b]
    /\ toggle' = ToggleAtStore(b)
    /\ UNCHANGED <<resume, trail, dec, cells, app, sampler, twin, out_rate, n_channels, chan, rx,
                   nframes, wraps, ticks, sent, hist, run>>

\* The consumer receives one event from the channel.
Recv ==
    /\ rx = "alive"
    /\ chan # << >>
    /\ chan' = Tail(chan)
    /\ UNCHANGED <<resume, trail, dec, cells, app, param, sampler, twin, out_rate, n_channels, rx,
                   nframes, wraps, ticks, sent, hist, run, toggle>>

\* The consumer drops the Receiver, and with it what it had not received.
DropReceiver ==
    /\ rx = "alive"
    /\ rx' = "dropped"
    /\ chan' = << >>
    /\ UNCHANGED <<resume, trail, dec, cells, app, param, sampler, twin, out_rate, n_channels,
                   nframes, wraps, ticks, sent, hist, run, toggle>>

\* What the edge detection of a frame found.
EdgeKind(was_playing, playing) ==
    IF playing THEN (IF was_playing THEN "play" ELSE "start")
    ELSE (IF was_playing THEN "stop" ELSE "idle")

\* The audio callback starts a frame: write, lines 127-140.
LoadPlayingStep ==
    /\ sampler.pc = "load_playing"
    /\ nframes < MaxFrames
    /\ sampler' = UpdatePlaying(sampler, param.playing, n_channels)
    /\ nframes' = nframes + 1
    /\ hist' = [pre |-> sampler.playhead, prev_length |-> sampler.length,
                edge |-> EdgeKind(sampler.was_playing, param.playing),
                adv |-> "none"]
    /\ run' = IF param.playing THEN run
              ELSE [NoRun EXCEPT !.ok = (sampler'.playhead = 0)]
    /\ toggle' = ToggleAtLoad
    /\ UNCHANGED <<dec, cells, app, param, out_rate, n_channels, chan, rx, wraps, ticks, sent>>

\* The audio callback fills the frame: write, lines 142-150.
LoadVolumeStep ==
    /\ sampler.pc = "load_volume"
    /\ sampler' = WriteFrame(sampler, param.volume)
    /\ UNCHANGED <<dec, cells, app, param, out_rate, n_channels, chan, rx,
                   nframes, wraps, ticks, sent, hist, run, toggle>>

\* The audio callback ends the frame: write, lines 152-163.
AdvanceStep ==
    /\ sampler.pc = "advance"
    /\ LET r == MoveClock(sampler, param.bpm, out_rate, rx)
       IN  /\ sampler' = r.e
           /\ chan' = chan \o r.msgs
           /\ wraps' = wraps + (IF r.wrapped THEN 1 ELSE 0)
           /\ ticks' = ticks + r.calls
           /\ sent' = sent + Len(r.msgs)
           /\ hist' = [hist EXCEPT !.adv = IF r.wrapped THEN "wrap" ELSE "step"]
           /\ run' = IF run.ok /\ run.bpm \in {0, param.bpm}
                     THEN [ok |-> TRUE, n |-> run.n + 1,
                           ticks |-> run.ticks + r.calls, bpm |-> param.bpm]
                     ELSE [NoRun EXCEPT !.ok = FALSE]
    /\ UNCHANGED <<dec, cells, app, param, out_rate, n_channels, rx, nframes, toggle>>

LoadPlaying == LoadPlayingStep /\ UNCHANGED <<twin, trail, resume>>
LoadVolume == LoadVolumeStep /\ UNCHANGED <<twin, trail, resume>>
Advance == AdvanceStep /\ UNCHANGED <<twin, trail, resume>>

Next ==
    \/ \E v \in Tempos : StoreBpm(v)
    \/ \E v \in Volumes : StoreVolume(v)
    \/ \E b \in BOOLEAN : StorePlaying(b)
    \/ Recv
    \/ DropReceiver
    \/ LoadPlaying
    \/ LoadVolume
    \/ Advance

Spec == Init /\ [][Next]_vars

----------------------------------------------------------------------------
\* Two Samplers side by side on the same parameters and frames: `sampler`
\* holds a Sender whose Receiver stays alive, `twin` holds none.
InitPair ==
    /\ InitCommon
    /\ \E b \in SampleBuffers, r \in SourceRates :
          /\ sampler = NewSampler(b, r, "Some")
          /\ twin = NewSampler(b, r, "None")

LoadPlayingPair ==
    /\ LoadPlayingStep
    /\ twin.pc = "load_playing"
    /\ twin' = UpdatePlaying(twin, param.playing, n_channels)
    /\ UNCHANGED <<trail, resume>>

LoadVolumePair ==
    /\ LoadVolumeStep
    /\ twin.pc = "load_volume"
    /\ twin' = WriteFrame(twin, param.volume)
    /\ UNCHANGED <<trail, resume>>

AdvancePair ==
    /\ AdvanceStep
    /\ twin.pc = "advance"
    /\ twin' = MoveClock(twin, param.bpm, out_rate, rx).e
    /\ UNCHANGED <<trail, resume>>

NextPair ==
    \/ \E v \in Tempos : StoreBpm(v)
    \/ \E v \in Volumes : StoreVolume(v)
    \/ \E b \in BOOLEAN : StorePlaying(b)
    \/ Recv
    \/ LoadPlayingPair
    \/ LoadVolumePair
    \/ AdvancePair

SpecPair == InitPair /\ [][NextPair]_vars

----------------------------------------------------------------------------
\* The engine with a record of its last playing frames: `trail` holds, for
\* up to three consecutive playing frames, the playhead the frame started
\* from, whether it left its slots unwritten and whether it wrapped.

InitTrail ==
    /\ InitCommon
    /\ \E b \in SampleBuffers, r \in SourceRates : sampler = NewSampler(b, r, "Some")
    /\ twin = sampler

\* A frame that finds playing false ends the run of playing frames.
LoadPlayingTrail ==
    /\ LoadPlayingStep
    /\ trail' = IF param.playing THEN trail ELSE << >>
    /\ UNCHANGED <<twin, resume>>

LoadVolumeTrail == LoadVolumeStep /\ UNCHANGED <<twin, trail, resume>>

AdvanceTrail ==
    /\ AdvanceStep
    /\ LET rec  == [pos     |-> sampler.playhead,
                    silent  |-> \A c \in DOMAIN sampler.frame : sampler.frame[c] = Stale,
                    wrapped |-> wraps' # wraps]
           full == Append(trail, rec)
       IN  trail' = IF Len(full) > 3 THEN Tail(full) ELSE full
    /\ UNCHANGED <<twin, resume>>

NextTrail ==
    \/ \E v \in Tempos : StoreBpm(v)
    \/ \E v \in Volumes : StoreVolume(v)
    \/ \E b \in BOOLEAN : StorePlaying(b)
    \/ Recv
    \/ LoadPlayingTrail
    \/ LoadVolumeTrail
    \/ AdvanceTrail

SpecTrail == InitTrail /\ [][NextTrail]_vars

----------------------------------------------------------------------------
(***************************************************************************)
(* The control surface: App over the shared SamplerParam.  bpm is a whole  *)
(* number of beats per minute and volume a number of tenths.               *)
(***************************************************************************)

\* config.rs; the volumes in tenths.
MIN_BPM == 20
MAX_BPM == 200
MAX_TOTAL_BEATS == 12
MIN_TOTAL_BEATS == 2
MAX_VOLUME == 10
MIN_VOLUME == 0

\* Mutant of clamp: only the lower limit is applied.
clamp_lower_only(x, min, max) == IF x < min THEN min ELSE x

\* f64::clamp.
clamp(x, min, max) == IF x < min THEN min ELSE IF x > max THEN max ELSE x

\* Mutant of update_by_sampler_event: the count is not taken modulo.
update_by_sampler_event_no_modulo(a) ==
    [a EXCEPT !.beat_count = a.beat_count + 1]

\* App::update_by_sampler_event.
update_by_sampler_event(a) ==
    [a EXCEPT !.beat_count = (a.beat_count % a.total_beats) + 1]

\* App::new over a SamplerParam whose bpm and volume are in range.
InitApp ==
    /\ EngineAtRest
    /\ param \in [bpm : {MIN_BPM, 120}, playing : {FALSE},
                   volume : {5, MAX_VOLUME}]
    /\ app = [stage |-> "run", beat_count |-> 1, total_beats |-> 4,
              should_quit |-> FALSE]
    /\ dec = NoDec /\ cells = NoCells

\* update_by_ui_event(Action::Tick): nothing but a redraw.
UiTick ==
    /\ app.stage = "run"
    /\ UNCHANGED vars

\* update_by_ui_event(Action::Quit).
Quit ==
    /\ app.stage = "run"
    /\ app' = [app EXCEPT !.should_quit = TRUE]
    /\ UNCHANGED <<param, sampler, twin, resume, out_rate, n_channels, chan, rx, nframes,
                   wraps, ticks, sent, hist, run, toggle, trail, dec, cells>>

\* update_by_ui_event(Action::IncBPM).
IncBPM ==
    /\ app.stage = "run"
    /\ LET bpm == param.bpm
       IN  param' = [param EXCEPT !.bpm = clamp(bpm + 1, MIN_BPM, MAX_BPM)]
    /\ UNCHANGED <<app, sampler, twin, resume, out_rate, n_channels, chan, rx, nframes,
                   wraps, ticks, sent, hist, run, toggle, trail, dec, cells>>

\* update_by_ui_event(Action::DecBPM).
DecBPM ==
    /\ app.stage = "run"
    /\ LET bpm == param.bpm
       IN  param' = [param EXCEPT !.bpm = clamp(bpm - 1, MIN_BPM, MAX_BPM)]
    /\ UNCHANGED <<app, sampler, twin, resume, out_rate, n_channels, chan, rx, nframes,
                   wraps, ticks, sent, hist, run, toggle, trail, dec, cells>>

\* update_by_ui_event(Action::IncTotalBeats).
IncTotalBeats ==
    /\ app.stage = "run"
    /\ app' = IF app.total_beats < MAX_TOTAL_BEATS
              THEN [app EXCEPT !.total_beats = @ + 1]
              ELSE app
    /\ UNCHANGED <<param, sampler, twin, resume, out_rate, n_channels, chan, rx, nframes,
                   wraps, ticks, sent, hist, run, toggle, trail, dec, cells>>

\* update_by_ui_event(Action::DecTotalBeats).
DecTotalBeats ==
    /\ app.stage = "run"
    /\ app' = IF app.total_beats > MIN_TOTAL_BEATS
              THEN [app EXCEPT !.total_beats = @ - 1]
              ELSE app
    /\ UNCHANGED <<param, sampler, twin, resume, out_rate, n_channels, chan, rx, nframes,
                   wraps, ticks, sent, hist, run, toggle, trail, dec, cells>>

\* update_by_ui_event(Action::IncVolume).
IncVolume ==
    /\ app.stage = "run"
    /\ LET volume == param.volume
       IN  param' = [param EXCEPT
                        !.volume = clamp(volume + 1, MIN_VOLUME, MAX_VOLUME)]
    /\ UNCHANGED <<app, sampler, twin, resume, out_rate, n_channels, chan, rx, nframes,
                   wraps, ticks, sent, hist, run, toggle, trail, dec, cells>>

\* update_by_ui_event(Action::DecVolume).
DecVolume ==
    /\ app.stage = "run"
    /\ LET volume == param.volume
       IN  param' = [param EXCEPT
                        !.volume = clamp(volume - 1, MIN_VOLUME, MAX_VOLUME)]
    /\ UNCHANGED <<app, sampler, twin, resume, out_rate, n_channels, chan, rx, nframes,
                   wraps, ticks, sent, hist, run, toggle, trail, dec, cells>>

\* A tick of the sampler handed to update_by_sampler_event.
SamplerTick ==
    /\ app.stage = "run"
    /\ app' = update_by_sampler_event(app)
    /\ UNCHANGED <<param, sampler, twin, resume, out_rate, n_channels, chan, rx, nframes,
                   wraps, ticks, sent, hist, run, toggle, trail, dec, cells>>

NextApp ==
    \/ UiTick
    \/ Quit
    \/ IncBPM
    \/ DecBPM
    \/ IncTotalBeats
    \/ DecTotalBeats
    \/ IncVolume
    \/ DecVolume
    \/ SamplerTick

SpecApp == InitApp /\ [][NextApp]_vars

----------------------------------------------------------------------------
\* The engine with a record of the stop it last saw: `resume` holds the
\* playhead that the frame which found playing false after true started from,
\* and of the playing frames since the last frame that found playing false
\* their number, their ticks, their tempo and whether it was the same in all.
InitResume ==
    /\ InitCommon
    /\ \E b \in SampleBuffers, r \in SourceRates : sampler = NewSampler(b, r, "Some")
    /\ twin = sampler

LoadPlayingResume ==
    /\ LoadPlayingStep
    /\ resume' = IF param.playing THEN resume
                 ELSE [NoResume EXCEPT
                          !.stopped_at = IF sampler.was_playing
                                         THEN sampler.playhead
                                         ELSE resume.stopped_at]
    /\ UNCHANGED <<twin, trail>>

LoadVolumeResume == LoadVolumeStep /\ UNCHANGED <<twin, trail, resume>>

AdvanceResume ==
    /\ AdvanceStep
    /\ resume' = [resume EXCEPT
                     !.n = @ + 1,
                     !.ticks = @ + (ticks' - ticks),
                     !.bpm = param.bpm,
                     !.steady = @ /\ resume.bpm \in {0, param.bpm}]
    /\ UNCHANGED <<twin, trail>>

NextResume ==
    \/ \E v \in Tempos : StoreBpm(v)
    \/ \E v \in Volumes : StoreVolume(v)
    \/ \E b \in BOOLEAN : StorePlaying(b)
    \/ Recv
    \/ LoadPlayingResume
    \/ LoadVolumeResume
    \/ AdvanceResume

SpecResume == InitResume /\ [][NextResume]_vars

----------------------------------------------------------------------------
\* The engine under consumers that store values outside the ranges the
\* control surface keeps: tempos below MIN_BPM and above MAX_BPM, volumes
\* below MIN_VOLUME and above MAX_VOLUME (in tenths).
RawTempos == {10, 250}
RawVolumes == {-5, 15}

InitUnclamped ==
    /\ param \in [bpm : RawTempos, playing : BOOLEAN, volume : RawVolumes]
    /\ out_rate \in OutputRates
    /\ n_channels \in ChannelCounts
    /\ \E b \in SampleBuffers, r \in SourceRates : sampler = NewSampler(b, r, "Some")
    /\ twin = sampler
    /\ chan = << >>
    /\ rx = "alive"
    /\ nframes = 0 /\ wraps = 0 /\ ticks = 0 /\ sent = 0
    /\ hist = NoHist /\ run = NoRun /\ toggle = NoToggle
    /\ trail = << >>
    /\ resume = NoResume
    /\ dec = NoDec /\ cells = NoCells /\ app = NoApp

NextUnclamped ==
    \/ \E v \in RawTempos : StoreBpm(v)
    \/ \E v \in RawVolumes : StoreVolume(v)
    \/ \E b \in BOOLEAN : StorePlaying(b)
    \/ Recv
    \/ LoadPlaying
    \/ LoadVolume
    \/ Advance

SpecUnclamped == InitUnclamped /\ [][NextUnclamped]_vars

----------------------------------------------------------------------------
\* The increment and the cycle length as the specification states them.
IncOf(source_rate, output_rate) == (source_rate * Den) \div output_rate
CycleOf(source_rate, bpm) == (source_rate * 60 * Den) \div bpm

\* The audio callback is between two frames (or has died in one).
FrameDone == sampler.pc \in {"load_playing", "panicked"}

\* C1: with the Receiver dropped, a write that reaches a wraparound completes
\* normally: the callback does not panic.
C1_WriteSurvivesDroppedReceiver ==
    rx = "dropped" => sampler.pc # "panicked"

\* C2: after every frame step that moved the clock, the playhead lies in
\* [0, cycle_length), cycle_length being computed from the tempo that frame read.
C2_PlayheadInCycle ==
    (FrameDone /\ hist.adv # "none") =>
        (0 <= sampler.playhead /\ sampler.playhead < sampler.length)

\* C3: N playing frames from playhead 0 under one tempo, with inc below the
\* cycle length, leave the playhead at (N * inc) mod cycle_length, having
\* emitted floor(N * inc / cycle_length) ticks.
C3_PlayheadAndTicksAfterN ==
    LET inc == IncOf(sampler.sample_rate, out_rate)
        len == CycleOf(sampler.sample_rate, run.bpm)
    IN  (run.ok /\ run.bpm # 0 /\ inc < len) =>
            /\ sampler.playhead = (run.n * inc) % len
            /\ run.ticks = (run.n * inc) \div len

\* C3 witness: five frames into a run that has wrapped twice and stands mid-cycle.
C3_Witness ==
    /\ run.ok /\ run.n = 5 /\ run.ticks = 2
    /\ sampler.playhead > 0
    /\ IncOf(sampler.sample_rate, out_rate) < CycleOf(sampler.sample_rate, run.bpm)

\* C4: the edge detection of a frame.  Observing playing = true never resets
\* the playhead and latches was_playing; observing false after true clears
\* was_playing and sets the playhead to 0; false after false changes neither.
C4_EdgeDetection ==
    [][nframes' = nframes + 1 =>
        /\ param.playing =>
              /\ sampler'.was_playing
              /\ sampler'.playhead = sampler.playhead
        /\ (~param.playing /\ sampler.was_playing) =>
              /\ ~sampler'.was_playing
              /\ sampler'.playhead = 0
        /\ (~param.playing /\ ~sampler.was_playing) =>
              /\ ~sampler'.was_playing
              /\ sampler'.playhead = sampler.playhead]_vars

\* C4 witness: a frame found the stop edge with the playhead mid-cycle and reset it.
C4_Witness ==
    /\ hist.edge = "stop" /\ hist.pre > 0
    /\ sampler.playhead = 0 /\ ~sampler.was_playing

\* C5 as stated: after a consumer stored playing = false and then true while
\* the engine was playing, the first frame processed after the second store
\* starts from playhead 0, whatever the interleaving.
C5_ResumeStartsAtZero ==
    (toggle.phase \in {"resumed", "resumed_seen"} /\ sampler.pc = "load_volume")
        => sampler.playhead = 0

\* C5 amended: the reset is made by the first frame that loads playing between
\* the two stores.  If there is such a frame, the first frame after the second
\* store starts from playhead 0; if both stores fall between two consecutive
\* loads of playing, that frame finds no edge and keeps the playhead.
C5_ResumeStartsAtZeroIfStopSeen ==
    /\ toggle.phase = "off_seen" =>
          (sampler.playhead = 0 /\ ~sampler.was_playing)
    /\ (toggle.phase = "resumed_seen" /\ sampler.pc = "load_volume") =>
          sampler.playhead = 0
    /\ (toggle.phase = "resumed" /\ sampler.pc = "load_volume") =>
          (hist.edge = "play" /\ sampler.playhead = hist.pre)

\* C5 witness: stopped mid-cycle, the stop seen by a frame, resumed, and the
\* first frame after the resume has started.
C5_Witness ==
    /\ toggle.phase = "resumed_seen" /\ toggle.from > 0
    /\ sampler.pc = "load_volume" /\ sampler.playhead = 0

\* C6: a frame that observes playing = false ends there: it writes no slot of
\* the output frame, leaves the playhead where the edge detection put it and
\* emits no tick.
C6_StoppedFrameDoesNothing ==
    [][(nframes' = nframes + 1 /\ ~param.playing) =>
        /\ sampler'.pc = "load_playing"
        /\ \A c \in 1..n_channels : sampler'.frame[c] = Stale
        /\ sampler'.playhead =
              (IF sampler.was_playing THEN 0 ELSE sampler.playhead)
        /\ UNCHANGED <<ticks, wraps, sent, chan>>]_vars

\* C6 witness: after ticks were emitted, a frame found playing = false while
\* already stopped and left its slots as they were.
C6_Witness ==
    /\ hist.edge = "idle" /\ hist.adv = "none" /\ ticks >= 1
    /\ sampler.pc = "load_playing"
    /\ \A c \in 1..n_channels : sampler.frame[c] = Stale

\* C7: in a playing frame whose index round(playhead) is inside the buffer,
\* every channel slot receives samples[index] * volume, with the volume loaded
\* in that frame and the index of the playhead not yet advanced.
C7_EverySlotScaledSample ==
    [][(sampler.pc = "load_volume" /\ sampler'.pc = "advance"
            /\ Round(sampler.playhead) < Len(sampler.samples)) =>
        /\ DOMAIN sampler'.frame = 1..n_channels
        /\ \A c \in 1..n_channels :
              sampler'.frame[c] =
                  <<sampler.samples[Round(sampler.playhead) + 1] * param.volume>>
        /\ sampler'.playhead = sampler.playhead]_vars

\* C7 witness: sample 1 (-0.5) at volume 0.5 written to both slots.
C7_Witness ==
    /\ sampler.pc = "advance" /\ sampler.idx = 1 /\ sampler.volume = 5
    /\ sampler.frame = [c \in 1..n_channels |-> <<-5>>]

\* The step that ends a playing frame.
IsAdvance == sampler.pc = "advance" /\ sampler'.pc # "advance"

\* C8: when the tempo was lowered since the previous frame, the playhead goes
\* on by inc and no tick is emitted as long as playhead + inc is below the new
\* cycle length; the store of the tempo itself moves nothing and emits nothing.
C8_LoweredTempoNoEarlyTick ==
    [][LET inc == IncOf(sampler.sample_rate, out_rate)
           len == CycleOf(sampler.sample_rate, param.bpm)
       IN  /\ (IsAdvance /\ hist.prev_length > 0 /\ len > hist.prev_length
                /\ sampler.playhead + inc < len) =>
                  /\ sampler'.playhead = sampler.playhead + inc
                  /\ UNCHANGED <<ticks, sent, chan>>
           /\ param'.bpm # param.bpm =>
                  UNCHANGED <<sampler, ticks, sent, chan>>]_vars

\* C8 witness: the cycle grew, and the frame stepped past the old cycle length
\* without a tick.
C8_Witness ==
    /\ sampler.pc = "load_playing" /\ hist.adv = "step"
    /\ hist.prev_length > 0 /\ sampler.length > hist.prev_length
    /\ sampler.playhead = hist.pre + IncOf(sampler.sample_rate, out_rate)
    /\ sampler.playhead >= hist.prev_length

\* C9: a frame emits a tick exactly when it takes the wrap branch, and then
\* one: ticks and wraparounds stay equal in number, each one reaches the
\* channel of a live Receiver, and the edge detection emits none.
C9_OneTickPerWrap ==
    /\ [](ticks = wraps)
    /\ []((sampler.sender = "Some" /\ rx = "alive") => sent = wraps)
    /\ [][LET inc == IncOf(sampler.sample_rate, out_rate)
              len == CycleOf(sampler.sample_rate, param.bpm)
              due == IF IsAdvance /\ sampler.playhead + inc >= len
                     THEN 1 ELSE 0
          IN  ticks' = ticks + due /\ wraps' = wraps + due]_vars

\* C9 witness: two wraparounds, two ticks in the channel's count, then a stop
\* reset that added none.
C9_Witness ==
    /\ wraps = 2 /\ ticks = 2 /\ sent = 2
    /\ hist.edge = "stop" /\ sampler.playhead = 0

\* C10: a Sampler without a sender and one whose Receiver is alive, fed the
\* same parameter values and frames, go through the same frame steps with the
\* same playhead, was_playing and output frame.
C10_SenderDoesNotAlterEngine ==
    /\ sampler.pc = twin.pc
    /\ sampler.playhead = twin.playhead
    /\ sampler.was_playing = twin.was_playing
    /\ sampler.frame = twin.frame

\* C10 witness: both have wrapped twice, only one has sent ticks.
C10_Witness ==
    /\ sampler.sender = "Some" /\ twin.sender = "None"
    /\ wraps = 2 /\ sent = 2 /\ chan # << >>
    /\ sampler.playhead = twin.playhead /\ sampler.playhead > 0
    /\ sampler.frame = twin.frame /\ sampler.frame # << >>

\* C11: the audio callback never waits on the consumer: a frame step is
\* enabled in every state, however many ticks are undrained and whether or
\* not a consumer still holds the Receiver.
C11_FrameStepAlwaysEnabled ==
    nframes < MaxFrames => ENABLED (LoadPlaying \/ LoadVolume \/ Advance)

----------------------------------------------------------------------------
(***************************************************************************)
(* Construction of a Sampler from a waveform source.  A normalized sample  *)
(* is the exact fraction [num, den] of the division the code makes in f64. *)
(***************************************************************************)

\* Samples a waveform source holds at most.
MaxSamples == 2

\* i16::MAX, (1 << 23) - 1 and i32::MAX.
I16Max == 32767
I24Max == 8388607
I32Max == 2147483647

\* The positive maximum of a signed integer of the given width.
IntMax(bits) ==
    CASE bits = 8  -> 127
      [] bits = 16 -> I16Max
      [] bits = 24 -> I24Max
      [] bits = 32 -> I32Max

\* What the samples iterator of the reader yields for one sample: a value or
\* an error.
RawSamples(format, bits) ==
    LET max == IF format = "Float" THEN 2 ELSE IntMax(bits)
        values == {-max - 1, -max, -1, 0, 1, max}
    IN  [ok : {TRUE}, v : values] \cup {[ok |-> FALSE, v |-> 0]}

\* spec.bits_per_sample of the sources.
BitDepths == {8, 16, 24, 32}

\* Waveform sources: a path that may not open, bytes that may not parse, and
\* a header followed by samples.
Sources ==
    UNION { UNION { UNION { [ opens : BOOLEAN, parses : BOOLEAN,
                              sample_format : {format}, bits_per_sample : {bits},
                              sample_rate : SourceRates,
                              raw : [1..n -> RawSamples(format, bits)] ]
                : n \in 0..MaxSamples }
              : bits \in BitDepths }
          : format \in {"Int", "Float"} }

\* read_samples_to_buffer: every sample unwrapped.
read_samples_to_buffer(raw) ==
    IF \E i \in DOMAIN raw : ~raw[i].ok
    THEN [tag |-> "Panic"]
    ELSE [tag |-> "Ok", buffer |-> [i \in DOMAIN raw |-> raw[i].v]]

\* buffer_i32_to_f64.
buffer_i32_to_f64(buffer_in, bit_depth) ==
    CASE bit_depth = 24 ->
            [tag |-> "Ok",
             buffer |-> [i \in DOMAIN buffer_in |->
                            [num |-> buffer_in[i], den |-> I24Max]]]
      [] bit_depth = 32 ->
            [tag |-> "Ok",
             buffer |-> [i \in DOMAIN buffer_in |->
                            [num |-> buffer_in[i], den |-> I32Max]]]
      [] OTHER -> [tag |-> "Err"]

\* buffer_i16_to_f64.
buffer_i16_to_f64(buffer_in, bit_depth) ==
    CASE bit_depth = 16 ->
            [tag |-> "Ok",
             buffer |-> [i \in DOMAIN buffer_in |->
                            [num |-> buffer_in[i], den |-> I16Max]]]
      [] OTHER -> [tag |-> "Err"]

\* buffer_f32_to_f64: the value widened, here halves.
buffer_f32_to_f64(buffer_in) ==
    [tag |-> "Ok",
     buffer |-> [i \in DOMAIN buffer_in |-> [num |-> buffer_in[i], den |-> 2]]]

\* The Ok(Self { .. }) of from_reader, or the error of the conversion.
Constructed(converted, sample_rate, sender) ==
    IF converted.tag = "Ok"
    THEN [tag |-> "Ok",
          sampler |-> NewSampler(converted.buffer, sample_rate, sender)]
    ELSE [tag |-> "Err"]

\* Sampler::from_reader.
from_reader(src, sender) ==
    LET buffer_in == read_samples_to_buffer(src.raw)
    IN  IF src.sample_format = "Float"
        THEN IF buffer_in.tag = "Panic" THEN [tag |-> "Panic"]
             ELSE Constructed(buffer_f32_to_f64(buffer_in.buffer),
                              src.sample_rate, sender)
        ELSE CASE src.bits_per_sample = 16 ->
                    IF buffer_in.tag = "Panic" THEN [tag |-> "Panic"]
                    ELSE Constructed(
                            buffer_i16_to_f64(buffer_in.buffer, src.bits_per_sample),
                            src.sample_rate, sender)
               [] src.bits_per_sample \in {24, 32} ->
                    IF buffer_in.tag = "Panic" THEN [tag |-> "Panic"]
                    ELSE Constructed(
                            buffer_i32_to_f64(buffer_in.buffer, src.bits_per_sample),
                            src.sample_rate, sender)
               [] OTHER -> [tag |-> "Err"]

\* Sampler::from_path: File::open and WavReader::new unwrapped.
from_path(src, sender) ==
    IF ~src.opens THEN [tag |-> "Panic"]
    ELSE IF ~src.parses THEN [tag |-> "Panic"]
    ELSE from_reader(src, sender)

InitDecode ==
    /\ EngineAtRest
    /\ param = DefaultParam
    /\ dec \in [stage : {"source"}, src : Sources]
    /\ cells = NoCells /\ app = NoApp

\* Sampler::from_path(path, sender) called on the source.
FromPath ==
    /\ dec.stage = "source"
    /\ dec' = [stage |-> "done", entry |-> "from_path", src |-> dec.src,
               result |-> from_path(dec.src, "Some")]
    /\ UNCHANGED <<param, sampler, twin, resume, out_rate, n_channels, chan, rx, nframes,
                   wraps, ticks, sent, hist, run, toggle, trail, cells, app>>

\* Sampler::from_reader(reader, sender) called on a reader over the source,
\* which exists only where the bytes parsed.
FromReader ==
    /\ dec.stage = "source"
    /\ dec.src.opens /\ dec.src.parses
    /\ dec' = [stage |-> "done", entry |-> "from_reader", src |-> dec.src,
               result |-> from_reader(dec.src, "Some")]
    /\ UNCHANGED <<param, sampler, twin, resume, out_rate, n_channels, chan, rx, nframes,
                   wraps, ticks, sent, hist, run, toggle, trail, cells, app>>

NextDecode == FromPath \/ FromReader

SpecDecode == InitDecode /\ [][NextDecode]_vars

----------------------------------------------------------------------------
(***************************************************************************)
(* The cells of SamplerParam.  An f64 is a number of halves; the 64 bits   *)
(* of an AtomicF64 are four 16-bit words, most significant first.          *)
(***************************************************************************)

\* The threads that store to the cells.
Writers == {"tui", "main"}

\* The fields of SamplerParam.
Cells == {"bpm", "volume", "playing"}

\* The values the cells are constructed with: 120.0, 1.0 and false.
InitialValue == [bpm |-> 240, volume |-> 2, playing |-> FALSE]

\* The values the writers pass to store: 60.5 and 121.0, 0.0 and 0.5.
StoredValues == [bpm |-> {121, 242}, volume |-> {0, 1}, playing |-> BOOLEAN]

RECURSIVE Pow2(_)
Pow2(n) == IF n = 0 THEN 1 ELSE 2 * Pow2(n - 1)

\* Index of the highest set bit of a positive integer.
RECURSIVE HighBit(_)
HighBit(n) == IF n < 2 THEN 0 ELSE 1 + HighBit(n \div 2)

\* f64::to_bits of a non-negative number of halves below 2^20: sign 0, the
\* biased exponent in 11 bits, then the 52 fraction bits.
to_bits(value) ==
    IF value = 0 THEN <<0, 0, 0, 0>>
    ELSE LET k   == HighBit(value)
             m20 == (value - Pow2(k)) * Pow2(20 - k)
         IN  <<(k - 1 + 1023) * 16 + m20 \div 65536, m20 % 65536, 0, 0>>

\* f64::from_bits back to halves; -1 stands for every f64 that is not a
\* non-negative number of halves below 2^20.
from_bits(as_u64) ==
    IF as_u64 = <<0, 0, 0, 0>> THEN 0
    ELSE LET k ==  as_u64[1] \div 16 - 1023 + 1
             m == Pow2(20) + (as_u64[1] % 16) * 65536 + as_u64[2]
         IN  IF \/ as_u64[1] >= 32768 \/ as_u64[3] # 0 \/ as_u64[4] # 0
                \/ k < 0 \/ k > 20
                \/ m % Pow2(20 - k) # 0
             THEN -1
             ELSE m \div Pow2(20 - k)

\* AtomicU64::store with part of the word left behind.
storage_store_torn(storage, as_u64) ==
    <<as_u64[1], storage[2], storage[3], storage[4]>>

\* AtomicU64::store: the whole word replaced in one step.
storage_store(storage, as_u64) == as_u64

\* What a load of the cell would return now.
LoadOf(c) ==
    IF c = "playing" THEN cells.playing ELSE from_bits(cells.storage[c])

InitAtomic ==
    /\ EngineAtRest
    /\ param = DefaultParam
    /\ cells = [ stage   |-> "live",
                 \* AtomicF64::new and AtomicBool::new
                 storage |-> [c \in {"bpm", "volume"} |-> to_bits(InitialValue[c])],
                 playing |-> InitialValue.playing,
                 \* the values stored so far, per cell
                 written |-> [c \in Cells |-> {}],
                 w       |-> [t \in Writers |-> [pc |-> "idle"]],
                 r       |-> [pc |-> "idle"] ]
    /\ dec = NoDec /\ app = NoApp

\* AtomicF64::store, first line: let as_u64 = value.to_bits().
StoreCall(t, c, value) ==
    /\ cells.stage = "live"
    /\ cells.w[t].pc = "idle"
    /\ c # "playing"
    /\ cells' = [cells EXCEPT !.w[t] = [pc |-> "store", cell |-> c, value |-> value,
                                        as_u64 |-> to_bits(value)]]
    /\ UNCHANGED <<param, sampler, twin, resume, out_rate, n_channels, chan, rx, nframes,
                   wraps, ticks, sent, hist, run, toggle, trail, dec, app>>

\* AtomicF64::store, second line: self.storage.store(as_u64, ordering).
StoreWord(t) ==
    /\ cells.stage = "live"
    /\ cells.w[t].pc = "store"
    /\ LET c == cells.w[t].cell
       IN  cells' = [cells EXCEPT
                        !.storage[c] = storage_store(@, cells.w[t].as_u64),
                        !.written[c] = @ \cup {cells.w[t].value},
                        !.w[t] = [pc |-> "idle"]]
    /\ UNCHANGED <<param, sampler, twin, resume, out_rate, n_channels, chan, rx, nframes,
                   wraps, ticks, sent, hist, run, toggle, trail, dec, app>>

\* AtomicBool::store on playing.
StoreBool(t, b) ==
    /\ cells.stage = "live"
    /\ cells.w[t].pc = "idle"
    /\ cells' = [cells EXCEPT !.playing = b,
                              !.written["playing"] = @ \cup {b}]
    /\ UNCHANGED <<param, sampler, twin, resume, out_rate, n_channels, chan, rx, nframes,
                   wraps, ticks, sent, hist, run, toggle, trail, dec, app>>

\* AtomicF64::load, first line, on the audio thread:
\* let as_u64 = self.storage.load(ordering).
LoadWord(c) ==
    /\ cells.stage = "live"
    /\ cells.r.pc # "load"
    /\ c # "playing"
    /\ cells' = [cells EXCEPT !.r = [pc |-> "load", cell |-> c,
                                     as_u64 |-> cells.storage[c]]]
    /\ UNCHANGED <<param, sampler, twin, resume, out_rate, n_channels, chan, rx, nframes,
                   wraps, ticks, sent, hist, run, toggle, trail, dec, app>>

\* AtomicF64::load, second line: f64::from_bits(as_u64) returned.
LoadReturn ==
    /\ cells.stage = "live"
    /\ cells.r.pc = "load"
    /\ cells' = [cells EXCEPT !.r = [pc |-> "loaded", cell |-> cells.r.cell,
                                     value |-> from_bits(cells.r.as_u64)]]
    /\ UNCHANGED <<param, sampler, twin, resume, out_rate, n_channels, chan, rx, nframes,
                   wraps, ticks, sent, hist, run, toggle, trail, dec, app>>

\* AtomicBool::load on playing, on the audio thread.
LoadBool ==
    /\ cells.stage = "live"
    /\ cells.r.pc # "load"
    /\ cells' = [cells EXCEPT !.r = [pc |-> "loaded", cell |-> "playing",
                                     value |-> cells.playing]]
    /\ UNCHANGED <<param, sampler, twin, resume, out_rate, n_channels, chan, rx, nframes,
                   wraps, ticks, sent, hist, run, toggle, trail, dec, app>>

NextAtomic ==
    \/ \E t \in Writers, c \in {"bpm", "volume"} :
          \E value \in StoredValues[c] : StoreCall(t, c, value)
    \/ \E t \in Writers : StoreWord(t)
    \/ \E t \in Writers, b \in StoredValues["playing"] : StoreBool(t, b)
    \/ \E c \in {"bpm", "volume"} : LoadWord(c)
    \/ LoadReturn
    \/ LoadBool

SpecAtomic == InitAtomic /\ [][NextAtomic]_vars

\* C15: every load returns the initial value of its cell or a value an
\* earlier store put whole into that cell, and a store to one cell changes
\* what a load of either other cell returns in no way.
C15_LoadsWholeAndCellsIndependent ==
    [][ /\ cells'.r.pc = "loaded" =>
              \/ cells'.r.value = InitialValue[cells'.r.cell]
              \/ cells'.r.value \in cells'.written[cells'.r.cell]
        /\ \A c \in Cells :
              cells'.written[c] # cells.written[c] \/ LoadOf(c)' # LoadOf(c)
                  => \A d \in Cells \ {c} : LoadOf(d)' = LoadOf(d) ]_vars

\* A load of bpm returns 60.5 after 121.0 and 60.5 were stored to it and 0.5
\* to volume, while the other writer is between the two lines of a store.
C15_Witness ==
    /\ cells.stage = "live"
    /\ cells.r.pc = "loaded" /\ cells.r.cell = "bpm" /\ cells.r.value = 121
    /\ cells.written["bpm"] = {121, 242}
    /\ 1 \in cells.written["volume"]
    /\ cells.storage["bpm"] = <<16462, 16384, 0, 0>>
    /\ \E t \in Writers : cells.w[t].pc = "store"

\* C12: every integer sample of a supported bit depth, the most negative of
\* its width included, is normalized into [-1, 1], and the 16-bit samples of
\* maximum magnitude become exactly +1 and -1.
C12_NormalizedInUnitRange ==
    (dec.stage = "done" /\ dec.result.tag = "Ok" /\ dec.src.sample_format = "Int")
        => \A i \in DOMAIN dec.src.raw :
              LET s == dec.result.sampler.samples[i]
                  v == dec.src.raw[i].v
              IN  /\ -s.den <= s.num /\ s.num <= s.den
                  /\ (dec.src.bits_per_sample = 16 /\ v = 32767) => s.num = s.den
                  /\ (dec.src.bits_per_sample = 16 /\ v = -32768) => s.num = -s.den

\* C13: from_reader returns an error for an integer bit depth other than 16,
\* 24 and 32, and otherwise a Sampler with playhead 0 and was_playing false.
C13_FromReaderByBitDepth ==
    (dec.stage = "done" /\ dec.entry = "from_reader")
        => IF dec.src.sample_format = "Int" /\ dec.src.bits_per_sample \notin {16, 24, 32}
           THEN dec.result.tag = "Err"
           ELSE /\ dec.result.tag = "Ok"
                /\ dec.result.sampler.playhead = 0
                /\ dec.result.sampler.was_playing = FALSE

\* C14: a source that does not open, does not parse or holds a sample that
\* fails to decode makes the construction return an error value.
C14_ConstructionFailureIsError ==
    (/\ dec.stage = "done"
     /\ \/ ~dec.src.opens
        \/ ~dec.src.parses
        \/ \E i \in DOMAIN dec.src.raw : ~dec.src.raw[i].ok)
        => dec.result.tag = "Err"

\* C16: a playing frame whose index round(playhead) is not below the buffer
\* length writes no slot of the output frame, and moves the playhead, takes
\* the wrap branch and emits the tick by the same arithmetic as any frame.
C16_BeyondBufferFrame ==
    [][LET inc == IncOf(sampler.sample_rate, out_rate)
           len == CycleOf(sampler.sample_rate, param.bpm)
           beyond == (2 * sampler.playhead + Den) \div (2 * Den) >= Len(sampler.samples)
           due == IF sampler.playhead + inc >= len THEN 1 ELSE 0
       IN  /\ (sampler.pc = "load_volume" /\ sampler'.pc = "advance" /\ beyond)
                 => /\ sampler'.frame = [c \in 1..n_channels |-> Stale]
                    /\ sampler'.playhead = sampler.playhead
                    /\ ticks' = ticks /\ wraps' = wraps
           /\ (sampler.pc = "advance" /\ sampler'.pc # "advance" /\ beyond)
                 => /\ sampler'.frame = [c \in 1..n_channels |-> Stale]
                    /\ sampler'.playhead = sampler.playhead + inc - due * len
                    /\ ticks' = ticks + due /\ wraps' = wraps + due]_vars

\* C16 witness: a frame read beyond the buffer has just wrapped and sent its
\* tick, leaving every slot as it found it.
C16_Witness ==
    /\ sampler.pc = "load_playing" /\ sampler.was_playing
    /\ hist.adv = "wrap" /\ ticks = 1 /\ sent = 1
    /\ sampler.idx >= Len(sampler.samples)
    /\ sampler.frame = [c \in 1..n_channels |-> Stale]

\* C17 as stated: a playing frame whose index is outside the sample buffer
\* wraps, or the playing frame right before or right after it does.
C17_BeyondBufferOnlyNearWrap ==
    (Len(trail) = 3 /\ trail[2].silent)
        => (trail[1].wrapped \/ trail[2].wrapped \/ trail[3].wrapped)

\* C17: a playing frame leaves its slots unwritten exactly when
\* round(playhead) has reached the length of the sample buffer, and from such
\* a frame on every playing frame does, until one wraps or playing stops:
\* the part of a cycle after the click is silent.
C17_SilentFromBufferEndToWrap ==
    /\ \A i \in DOMAIN trail :
          trail[i].silent <=>
              (2 * trail[i].pos + Den) \div (2 * Den) >= Len(sampler.samples)
    /\ \A i \in DOMAIN trail :
          (i + 1 \in DOMAIN trail /\ trail[i].silent /\ ~trail[i].wrapped)
              => trail[i + 1].silent

\* C17 witness: three playing frames in a row, none of which wrapped, the
\* first inside the sample buffer and the next two beyond it.
C17_Witness ==
    /\ Len(trail) = 3
    /\ ~trail[1].silent /\ trail[2].silent /\ trail[3].silent
    /\ ~trail[1].wrapped /\ ~trail[2].wrapped /\ ~trail[3].wrapped

\* C18: where every tempo in range gives a cycle of two frames or more, no
\* two consecutive playing frames both emit a tick, whatever tempo changes
\* are made while playing.
C18_NoTicksInConsecutiveFrames ==
    (\A bpm \in Tempos :
        2 * IncOf(sampler.sample_rate, out_rate) <= CycleOf(sampler.sample_rate, bpm))
        => \A i \in DOMAIN trail :
              i + 1 \in DOMAIN trail => ~(trail[i].wrapped /\ trail[i + 1].wrapped)

\* C19: from bpm in [20, 200] and volume in [0, 1], every sequence of UI
\* actions leaves the shared bpm in [MIN_BPM, MAX_BPM] and the shared volume
\* in [MIN_VOLUME, MAX_VOLUME], so that the cycle length is positive.
C19_ParamsStayInRange ==
    app.stage = "run" =>
        /\ 20 <= param.bpm /\ param.bpm <= 200
        /\ 0 <= param.volume /\ param.volume <= 10
        /\ (sampler.sample_rate * 60 * Den) \div param.bpm > 0

\* C19 witness: IncBPM has brought bpm to its upper limit and DecVolume the
\* volume to its lower limit, where each of them leaves the value as it is.
C19_Witness ==
    /\ app.stage = "run" /\ app.should_quit
    /\ param.bpm = 200 /\ param.volume = 0
    /\ ENABLED (IncBPM /\ param'.bpm = 200)
    /\ ENABLED (DecVolume /\ param'.volume = 0)

\* C20 as stated: beat_count lies in 1..total_beats in every state of App.
C20_BeatCountWithinTotal ==
    app.stage = "run" =>
        (1 <= app.beat_count /\ app.beat_count <= app.total_beats)

\* C20: beat_count lies in 1..MAX_TOTAL_BEATS in every state of App, and in
\* 1..total_beats after every sampler tick; only DecTotalBeats takes
\* total_beats below it, by one at a time, until the next tick.
C20_BeatCountWithinTotalAfterTick ==
    /\ [](app.stage = "run" =>
            (1 <= app.beat_count /\ app.beat_count <= 12))
    /\ [][app.stage = "run" =>
            /\ app'.beat_count # app.beat_count
                  => (1 <= app'.beat_count /\ app'.beat_count <= app'.total_beats)
            /\ (app.beat_count <= app.total_beats /\ app'.beat_count > app'.total_beats)
                  => (app'.total_beats = app.total_beats - 1
                      /\ app'.beat_count = app.beat_count)]_vars

\* C20 witness: after DecTotalBeats at the last beat of the bar, beat_count
\* is above total_beats.
C20_Witness ==
    /\ app.stage = "run"
    /\ app.beat_count = 4 /\ app.total_beats = 3

\* C21: after every frame step was_playing is the value of playing that the
\* frame observed, and whenever was_playing is false the playhead is 0, from
\* construction onwards.
C21_WasPlayingLatchedAndRestAtZero ==
    /\ [](~sampler.was_playing => sampler.playhead = 0)
    /\ [](nframes > 0 => sampler.was_playing = sampler.playing)
    /\ [][nframes' = nframes + 1 => sampler'.was_playing = param.playing]_vars

\* C21 witness: a frame has seen the stop of a run that had wrapped and stood
\* mid-cycle; was_playing is false and the playhead back at 0.
C21_Witness ==
    /\ sampler.pc = "load_playing" /\ hist.edge = "stop" /\ hist.pre > 0
    /\ wraps > 0
    /\ ~sampler.was_playing /\ ~sampler.playing /\ sampler.playhead = 0

\* C22: after a frame has seen a stop, the playing frames that follow under
\* one tempo emit no tick before the ceil(cycle_length / inc)-th of them and
\* the first tick on that one, wherever the playhead stood at the stop.
C22_FirstTickAfterResume ==
    LET inc == IncOf(sampler.sample_rate, out_rate)
        len == CycleOf(sampler.sample_rate, resume.bpm)
        nth == (len + inc - 1) \div inc
    IN  (resume.stopped_at >= 0 /\ resume.steady /\ resume.n > 0) =>
            /\ resume.n < nth => resume.ticks = 0
            /\ resume.n = nth => resume.ticks = 1
            /\ resume.n > nth => resume.ticks >= 1

\* C22 witness: stopped mid-cycle after a wraparound, resumed, and the third
\* playing frame after the resume has just emitted the first tick.
C22_Witness ==
    /\ resume.stopped_at > 0 /\ wraps = 2
    /\ resume.steady /\ resume.n = 3 /\ resume.ticks = 1 /\ hist.adv = "wrap"
    /\ (CycleOf(sampler.sample_rate, resume.bpm)
           + IncOf(sampler.sample_rate, out_rate) - 1)
          \div IncOf(sampler.sample_rate, out_rate) = 3

\* C23: no frame step stores to the shared parameters, and each uses the
\* values it loads as they are, out of range or not: playing as loaded, the
\* slots the sample times the loaded volume, the cycle length from the
\* loaded tempo.
C23_EngineOnlyReadsParam ==
    [][(sampler' # sampler \/ nframes' # nframes) =>
          /\ param' = param
          /\ sampler.pc = "load_playing" => sampler'.playing = param.playing
          /\ sampler.pc = "load_volume" =>
                LET idx == (2 * sampler.playhead + Den) \div (2 * Den)
                IN  /\ sampler'.volume = param.volume
                    /\ idx < Len(sampler.samples) =>
                          \A c \in 1..n_channels :
                              sampler'.frame[c] = <<sampler.samples[idx + 1] * param.volume>>
          /\ sampler.pc = "advance" =>
                sampler'.length = (sampler.sample_rate * 60 * Den) \div param.bpm]_vars

\* C23 witness: a frame has written its slots with the volume 1.5 and ended
\* under the tempo 250, after a tick, and both are still what the consumer
\* stored.
C23_Witness ==
    /\ sampler.pc = "load_playing" /\ sampler.playing /\ ticks > 0
    /\ param.volume = 15 /\ sampler.volume = 15
    /\ \E c \in DOMAIN sampler.frame : sampler.frame[c] = <<30>>
    /\ param.bpm = 250 /\ sampler.length = CycleOf(sampler.sample_rate, 250)

====
